---- MODULE Spec2Model ----
(***************************************************************************)
(* VF2++ isomorphism search of networkx/algorithms/isomorphism/VF2pp.py:   *)
(* the generator isomorphic_VF2pp (the search driver), precheck and        *)
(* initialize_VF2pp, together with the helpers the driver imports from     *)
(* VF2pp_helpers (node ordering, candidate generation, feasibility and     *)
(* the state manager).                                                     *)
(*                                                                         *)
(* A graph is a record [nodes, edges]; an edge is the set of its end       *)
(* points, so a self-loop on n is {n}.  A label map and a node mapping are *)
(* functions whose DOMAIN is the set of keys of the Python dict.           *)
(***************************************************************************)
EXTENDS Integers, Sequences, FiniteSets, TLC

\* Largest number of nodes of an input graph.
MaxNodes == 3
\* Label values are 1..NumLabels.
NumLabels == 2
\* Largest number of self-loops of an input graph.
MaxLoops == 1
\* Largest number of direct calls of precheck in one behaviour.
MaxCalls == 2
\* Largest number of invocations of the query in one behaviour.
MaxInvocations == 2
\* Largest number of nodes of an input graph whose label map may be partial.
MaxUnlabelled == 2

VARIABLES
    G1, G2,                 \* the two graphs (arguments)
    G1_labels, G2_labels,   \* the two label maps (arguments)
    pc,                     \* position of the generator body
    err,                    \* the exception that ended the generator, or "none"
    visited,                \* local `visited`
    state_params,           \* namedtuple StateParameters
    node_order,             \* local `node_order`
    stack,                  \* local `stack`: frames [node, cands]
    matching_node,          \* local `matching_node`
    results,                \* the mappings handed to the caller, in order
    pre,                    \* values returned by direct calls of precheck
    tried,                  \* the pairs <<node, candidate>> tested, in order
    calls,                  \* the invocations the caller has finished, in order
    other                   \* the suspended invocations of the caller (none or one)

vars == <<G1, G2, G1_labels, G2_labels, pc, err, visited, state_params,
          node_order, stack, matching_node, results, pre, tried, calls,
          other>>

inputs == <<G1, G2, G1_labels, G2_labels>>

search == <<visited, state_params, node_order, stack, matching_node>>

-----------------------------------------------------------------------------
(* The graph and label collaborators.                                      *)

EmptyMap == [x \in {} |-> 0]

\* G[n]: the neighbours of n; n itself when n carries a self-loop.
Nbrs(G, n) == {v \in G.nodes : {n, v} \in G.edges}

\* G.degree(n): a self-loop counts twice.
Degree(G, n) ==
    LET nbrs == Nbrs(G, n)
    IN  Cardinality(nbrs \ {n}) + (IF n \in nbrs THEN 2 ELSE 0)

\* G.order(), G.number_of_nodes()
Order(G) == Cardinality(G.nodes)

\* dict.pop(key) on a mapping
MapPop(f, k) == [x \in DOMAIN f \ {k} |-> f[x]]

\* d[key] = value on a mapping
MapPut(f, k, v) == [x \in DOMAIN f \cup {k} |-> IF x = k THEN v ELSE f[x]]

Range(f) == {f[x] : x \in DOMAIN f}

Min(S) == CHOOSE x \in S : \A y \in S : x <= y

\* sorted(d for n, d in G.degree()): ascending list of the degrees
RECURSIVE SortedValues(_, _)
SortedValues(d, S) ==
    IF S = {} THEN <<>>
    ELSE LET n == CHOOSE x \in S : \A y \in S : d[x] <= d[y]
         IN  <<d[n]>> \o SortedValues(d, S \ {n})

SortedDegrees(G) == SortedValues([n \in G.nodes |-> Degree(G, n)], G.nodes)

\* nx.utils.groups(labels): label value -> set of the nodes carrying it
groups(labels) ==
    [l \in Range(labels) |-> {n \in DOMAIN labels : labels[n] = l}]

\* {label: len(nodes) for label, nodes in groups(labels).items()}
nodes_per_label(labels) ==
    [l \in DOMAIN groups(labels) |-> Cardinality(groups(labels)[l])]

-----------------------------------------------------------------------------
(* precheck                                                                *)

\* Variant: the degree lists are compared without being sorted.
precheck_unsorted(g1, g2, l1, l2) ==
    IF Order(g1) # Order(g2) THEN FALSE
    ELSE IF [n \in g1.nodes |-> Degree(g1, n)] # [n \in g2.nodes |-> Degree(g2, n)]
         THEN FALSE
    ELSE IF nodes_per_label(l1) # nodes_per_label(l2) THEN FALSE
    ELSE TRUE

\* Variant: the sets of labels are compared, not the counts per label.
precheck_label_sets(g1, g2, l1, l2) ==
    IF Order(g1) # Order(g2) THEN FALSE
    ELSE IF SortedDegrees(g1) # SortedDegrees(g2) THEN FALSE
    ELSE IF DOMAIN groups(l1) # DOMAIN groups(l2) THEN FALSE
    ELSE TRUE

\* Variant: only the node counts are compared.
precheck_order_only(g1, g2, l1, l2) == Order(g1) = Order(g2)

\* Variant: the label counts are not compared.
precheck_no_labels(g1, g2, l1, l2) ==
    IF Order(g1) # Order(g2) THEN FALSE
    ELSE IF SortedDegrees(g1) # SortedDegrees(g2) THEN FALSE
    ELSE TRUE

\* Variant: the degree sequences are not compared.
precheck_no_degrees(g1, g2, l1, l2) ==
    IF Order(g1) # Order(g2) THEN FALSE
    ELSE IF nodes_per_label(l1) # nodes_per_label(l2) THEN FALSE
    ELSE TRUE

precheck(g1, g2, l1, l2) ==
    IF Order(g1) # Order(g2) THEN FALSE
    ELSE IF SortedDegrees(g1) # SortedDegrees(g2) THEN FALSE
    ELSE IF nodes_per_label(l1) # nodes_per_label(l2) THEN FALSE
    ELSE TRUE

\* Variant: a destructive grouping, the first label map loses its smallest key.
precheck_args_popped(g1, g2, l1, l2) ==
    <<g1, g2, IF DOMAIN l1 = {} THEN l1 ELSE MapPop(l1, Min(DOMAIN l1)), l2>>

\* The arguments after a call of precheck: it assigns to none of them
\* (sorted() and the dict comprehensions build new objects).
precheck_args(g1, g2, l1, l2) == <<g1, g2, l1, l2>>

-----------------------------------------------------------------------------
(* VF2pp_helpers.node_ordering.matching_order                              *)

\* Nodes reachable from S: the connected component(s) of S.
RECURSIVE Closure(_, _)
Closure(G, S) ==
    LET S2 == S \cup UNION {Nbrs(G, v) : v \in S}
    IN  IF S2 = S THEN S ELSE Closure(G, S2)

Components(G) == {Closure(G, {n}) : n \in G.nodes}

\* Lexicographic >= on tuples of integers of equal length.
RECURSIVE LexGE(_, _)
LexGE(a, b) ==
    IF a = <<>> THEN TRUE
    ELSE IF Head(a) # Head(b) THEN Head(a) > Head(b)
    ELSE LexGE(Tail(a), Tail(b))

SeqToSet(s) == {s[i] : i \in DOMAIN s}

\* Priority of an unordered node: already-ordered neighbours, then degree,
\* then rarity of its label, then the smaller identifier.
OrderKey(G, labels, order, n) ==
    <<Cardinality(Nbrs(G, n) \cap SeqToSet(order)),
      Degree(G, n),
      0 - Cardinality({x \in DOMAIN labels : labels[x] = labels[n]}),
      0 - n>>

RECURSIVE OrderWithin(_, _, _, _)
OrderWithin(G, labels, left, order) ==
    IF left = {} THEN order
    ELSE LET key == [x \in left |-> OrderKey(G, labels, order, x)]
             n   == CHOOSE x \in left : \A y \in left : LexGE(key[x], key[y])
         IN  OrderWithin(G, labels, left \ {n}, Append(order, n))

RECURSIVE OrderComponents(_, _, _, _)
OrderComponents(G, labels, comps, order) ==
    IF comps = {} THEN order
    ELSE LET c == CHOOSE x \in comps : \A y \in comps :
                      LexGE(<<Cardinality(x), 0 - Min(x)>>, <<Cardinality(y), 0 - Min(y)>>)
         IN  OrderComponents(G, labels, comps \ {c}, OrderWithin(G, labels, c, order))

matching_order(g1, g2, l1, l2) == OrderComponents(g1, l1, Components(g1), <<>>)

\* The rarity of the label of every node of G1 is read: a node with no entry
\* in the label map ends the ordering with a KeyError.
matching_order_raises(g1, g2, l1, l2) == \E n \in g1.nodes : n \notin DOMAIN l1

-----------------------------------------------------------------------------
(* VF2pp_helpers.candidates.find_candidates                                *)

\* A set of node identifiers as the ascending sequence a traversal yields.
RECURSIVE Ascending(_)
Ascending(S) ==
    IF S = {} THEN <<>> ELSE <<Min(S)>> \o Ascending(S \ {Min(S)})

\* Variant: a node without mapped neighbour gets its candidates from T2
\* alone.
find_candidates_frontier_in(u, gp, sp) ==
    LET covered == {v \in Nbrs(gp.G1, u) : v \in DOMAIN sp.mapping}
        same    == {m \in gp.G2.nodes : gp.G2_labels[m] = gp.G1_labels[u]}
        free    == same \ DOMAIN sp.reverse_mapping
    IN  IF covered = {}
        THEN Ascending(free \cap sp.T2)
        ELSE Ascending(free \cap Nbrs(gp.G2, sp.mapping[Min(covered)]))

find_candidates(u, gp, sp) ==
    LET covered == {v \in Nbrs(gp.G1, u) : v \in DOMAIN sp.mapping}
        same    == {m \in gp.G2.nodes : gp.G2_labels[m] = gp.G1_labels[u]}
        free    == same \ DOMAIN sp.reverse_mapping
    IN  IF covered = {}
        THEN Ascending(free \cap (sp.T2 \cup sp.T2_out))
        ELSE Ascending(free \cap Nbrs(gp.G2, sp.mapping[Min(covered)]))

-----------------------------------------------------------------------------
(* VF2pp_helpers.feasibility.feasibility                                   *)

\* Variant: the cut on T_in compares the unmapped neighbours of n in T1
\* with those of m in T2_out.
feasibility_mixed_cut(n, m, gp, sp) ==
    LET n1  == Nbrs(gp.G1, n)
        n2  == Nbrs(gp.G2, m)
        un1 == n1 \ DOMAIN sp.mapping
        un2 == n2 \ DOMAIN sp.reverse_mapping
    IN  /\ gp.G1_labels[n] = gp.G2_labels[m]
        /\ Degree(gp.G1, n) = Degree(gp.G2, m)
        /\ \A u \in n1 \cap DOMAIN sp.mapping : sp.mapping[u] \in n2
        /\ \A v \in n2 \cap DOMAIN sp.reverse_mapping : sp.reverse_mapping[v] \in n1
        /\ Cardinality(un1 \cap sp.T1) = Cardinality(un2 \cap sp.T2_out)
        /\ Cardinality(un1 \cap sp.T1_out) = Cardinality(un2 \cap sp.T2_out)

feasibility(n, m, gp, sp) ==
    LET n1  == Nbrs(gp.G1, n)
        n2  == Nbrs(gp.G2, m)
        un1 == n1 \ DOMAIN sp.mapping
        un2 == n2 \ DOMAIN sp.reverse_mapping
    IN  /\ gp.G1_labels[n] = gp.G2_labels[m]
        /\ Degree(gp.G1, n) = Degree(gp.G2, m)
        /\ \A u \in n1 \cap DOMAIN sp.mapping : sp.mapping[u] \in n2
        /\ \A v \in n2 \cap DOMAIN sp.reverse_mapping : sp.reverse_mapping[v] \in n1
        /\ Cardinality(un1 \cap sp.T1) = Cardinality(un2 \cap sp.T2)
        /\ Cardinality(un1 \cap sp.T1_out) = Cardinality(un2 \cap sp.T2_out)

-----------------------------------------------------------------------------
(* VF2pp_helpers.state: update_state (Commit) and restore_state (Rollback) *)

\* Variant: the mapped node stays in the frontier set that held it.
CommitFrontierKeepsNode(G, mapped, Tin, Tout, n) ==
    LET fresh == Nbrs(G, n) \ mapped
    IN  [Tin |-> Tin \cup fresh, Tout |-> Tout \ fresh]

\* Frontier sets of one graph after node n has been mapped.
CommitFrontier(G, mapped, Tin, Tout, n) ==
    LET fresh == Nbrs(G, n) \ mapped
    IN  [Tin |-> (Tin \cup fresh) \ {n}, Tout |-> (Tout \ fresh) \ {n}]

\* Variant: every unmapped neighbour of the un-mapped node returns to
\* T_out, whether another of its neighbours is still mapped or not.
RollbackFrontierAllOut(G, mapped, Tin, Tout, n) ==
    LET back == (Nbrs(G, n) \ mapped) \ {n}
    IN  IF Nbrs(G, n) \cap mapped # {}
        THEN [Tin |-> (Tin \ back) \cup {n}, Tout |-> Tout \cup back]
        ELSE [Tin |-> Tin \ back, Tout |-> Tout \cup back \cup {n}]

\* Frontier sets of one graph after node n has been un-mapped.
RollbackFrontier(G, mapped, Tin, Tout, n) ==
    LET covered(v) == Nbrs(G, v) \cap mapped # {}
        back  == {v \in (Nbrs(G, n) \ mapped) \ {n} : ~covered(v)}
        Tin1  == Tin \ back
        Tout1 == Tout \cup back
    IN  IF covered(n)
        THEN [Tin |-> Tin1 \cup {n}, Tout |-> Tout1]
        ELSE [Tin |-> Tin1, Tout |-> Tout1 \cup {n}]

update_state(n, m, gp, sp) ==
    LET mapping  == MapPut(sp.mapping, n, m)
        reverse  == MapPut(sp.reverse_mapping, m, n)
        f1 == CommitFrontier(gp.G1, DOMAIN mapping, sp.T1, sp.T1_out, n)
        f2 == CommitFrontier(gp.G2, DOMAIN reverse, sp.T2, sp.T2_out, m)
    IN  [mapping |-> mapping, reverse_mapping |-> reverse,
         T1 |-> f1.Tin, T1_out |-> f1.Tout, T2 |-> f2.Tin, T2_out |-> f2.Tout]

\* Variant: the rollback leaves `visited` as it is.
restore_state_keeps_visited(stk, vis, gp, sp) ==
    LET popped_node1 == stk[Len(stk)].node
        popped_node2 == sp.mapping[popped_node1]
        mapping  == MapPop(sp.mapping, popped_node1)
        reverse  == MapPop(sp.reverse_mapping, popped_node2)
        f1 == RollbackFrontier(gp.G1, DOMAIN mapping, sp.T1, sp.T1_out, popped_node1)
        f2 == RollbackFrontier(gp.G2, DOMAIN reverse, sp.T2, sp.T2_out, popped_node2)
    IN  [visited |-> vis,
         state_params |->
            [mapping |-> mapping, reverse_mapping |-> reverse,
             T1 |-> f1.Tin, T1_out |-> f1.Tout, T2 |-> f2.Tin, T2_out |-> f2.Tout]]

\* Variant: the pair leaves the two mappings and the frontier sets stay
\* as they are.
restore_state_mapping_only(stk, vis, gp, sp) ==
    LET popped_node1 == stk[Len(stk)].node
        popped_node2 == sp.mapping[popped_node1]
    IN  [visited |-> vis \ {popped_node2},
         state_params |->
            [sp EXCEPT !.mapping = MapPop(sp.mapping, popped_node1),
                       !.reverse_mapping = MapPop(sp.reverse_mapping, popped_node2)]]

\* Undoes the pair committed for the node of the top frame; its image
\* leaves `visited`.
restore_state(stk, vis, gp, sp) ==
    LET popped_node1 == stk[Len(stk)].node
        popped_node2 == sp.mapping[popped_node1]
        mapping  == MapPop(sp.mapping, popped_node1)
        reverse  == MapPop(sp.reverse_mapping, popped_node2)
        f1 == RollbackFrontier(gp.G1, DOMAIN mapping, sp.T1, sp.T1_out, popped_node1)
        f2 == RollbackFrontier(gp.G2, DOMAIN reverse, sp.T2, sp.T2_out, popped_node2)
    IN  [visited |-> vis \ {popped_node2},
         state_params |->
            [mapping |-> mapping, reverse_mapping |-> reverse,
             T1 |-> f1.Tin, T1_out |-> f1.Tout, T2 |-> f2.Tin, T2_out |-> f2.Tout]]

-----------------------------------------------------------------------------
(* initialize_VF2pp                                                        *)

InitialState(g1, g2) ==
    [mapping |-> EmptyMap, reverse_mapping |-> EmptyMap,
     T1 |-> {}, T1_out |-> g1.nodes, T2 |-> {}, T2_out |-> g2.nodes]

\* Variant: the mapping and the frontier sets are objects created once and
\* shared by all invocations.
initialize_VF2pp_shared(g1, g2, l1, l2) ==
    LET gp    == [G1 |-> g1, G2 |-> g2, G1_labels |-> l1, G2_labels |-> l2]
        order == matching_order(g1, g2, l1, l2)
    IN  IF order = <<>>
        THEN [err |-> "IndexError", state_params |-> state_params,
              node_order |-> order, stack |-> <<>>]
        ELSE [err |-> "none", state_params |-> state_params, node_order |-> order,
              stack |-> <<[node |-> order[1],
                           cands |-> find_candidates(order[1], gp, state_params)]>>]

\* err is "KeyError" when matching_order raises it, "IndexError" when
\* node_order[0] does not exist.
initialize_VF2pp(g1, g2, l1, l2) ==
    LET gp    == [G1 |-> g1, G2 |-> g2, G1_labels |-> l1, G2_labels |-> l2]
        sp    == InitialState(g1, g2)
        order == matching_order(g1, g2, l1, l2)
    IN  IF matching_order_raises(g1, g2, l1, l2)
        THEN [err |-> "KeyError", state_params |-> sp, node_order |-> <<>>,
              stack |-> <<>>]
        ELSE IF order = <<>>
        THEN [err |-> "IndexError", state_params |-> sp, node_order |-> order,
              stack |-> <<>>]
        ELSE [err |-> "none", state_params |-> sp, node_order |-> order,
              stack |-> <<[node |-> order[1], cands |-> find_candidates(order[1], gp, sp)]>>]

-----------------------------------------------------------------------------
(* isomorphic_VF2pp: the generator body, one action per loop iteration.    *)
(* pc: "init"    the generator object exists, its body has not started     *)
(*     "loop"    at the head of `while stack`, the stack not empty         *)
(*     "yielded" suspended at `yield state_params.mapping`                 *)
(*     "done"    the body returned (StopIteration for the caller)          *)
(*     "raised"  the body ended with the exception err                     *)

graph_params ==
    [G1 |-> G1, G2 |-> G2, G1_labels |-> G1_labels, G2_labels |-> G2_labels]

\* Variant: no guard for two empty graphs.
BothEmptyNever(g1, g2) == FALSE

\* `not G1 and not G2`
BothEmpty(g1, g2) == Order(g1) = 0 /\ Order(g2) = 0

\* Variant: the candidate is accepted without the feasibility test.
CandidateAcceptedUnchecked(candidate) == candidate \notin visited

\* `candidate not in visited and feasibility(...)`
CandidateAccepted(candidate) ==
    /\ candidate \notin visited
    /\ feasibility(stack[Len(stack)].node, candidate, graph_params, state_params)

\* Variant: the size of the mapping is compared with the position in the
\* node order, not with the number of nodes.
MappingCompleteAtDepth(sp) == Cardinality(DOMAIN sp.mapping) = matching_node

\* `len(state_params.mapping) == G1.number_of_nodes()`
MappingComplete(sp) == Cardinality(DOMAIN sp.mapping) = Order(G1)

\* Variant: the frame holds the candidates themselves and each test reads
\* the first of them (`next(iter(candidates))`).
NotAdvanced(stk) == stk

\* The stack with the top frame's iterator advanced by one candidate.
Advanced(stk) ==
    [stk EXCEPT ![Len(stk)].cands = Tail(stk[Len(stk)].cands)]

\* Variant: the candidates of the new frame are computed from the state
\* as it was before the commit.
PushNextStaleState(stk, sp) ==
    IF matching_node + 1 > Len(node_order)
    THEN [err |-> "IndexError", stack |-> stk, matching_node |-> matching_node]
    ELSE LET next_node == node_order[matching_node + 1]
         IN  [err |-> "none",
              stack |-> Append(stk, [node |-> next_node,
                                     cands |-> find_candidates(next_node, graph_params,
                                                               state_params)]),
              matching_node |-> matching_node + 1]

\* Variant: the frame is pushed and matching_node stays as it is.
PushNextSameDepth(stk, sp) ==
    IF matching_node + 1 > Len(node_order)
    THEN [err |-> "IndexError", stack |-> stk, matching_node |-> matching_node]
    ELSE LET next_node == node_order[matching_node + 1]
         IN  [err |-> "none",
              stack |-> Append(stk, [node |-> next_node,
                                     cands |-> find_candidates(next_node, graph_params, sp)]),
              matching_node |-> matching_node]

\* next_node = node_order[matching_node]; matching_node += 1;
\* stack.append((next_node, iter(find_candidates(...))))
\* err is "IndexError" when node_order has no position matching_node.
PushNext(stk, sp) ==
    IF matching_node + 1 > Len(node_order)
    THEN [err |-> "IndexError", stack |-> stk, matching_node |-> matching_node]
    ELSE LET next_node == node_order[matching_node + 1]
         IN  [err |-> "none",
              stack |-> Append(stk, [node |-> next_node,
                                     cands |-> find_candidates(next_node, graph_params, sp)]),
              matching_node |-> matching_node + 1]

\* Variant: the set of visited nodes outlives the invocation (module state).
visited_kept == visited

\* `visited = set()`
visited_new == {}

\* Variant: the position in the node order outlives the invocation.
matching_node_kept == matching_node

\* `matching_node = 1`
matching_node_first == 1

\* First request of the caller: the body runs up to the loop.
Start ==
    /\ pc = "init"
    /\ IF BothEmpty(G1, G2) \/ ~precheck(G1, G2, G1_labels, G2_labels)
       THEN /\ pc' = "done"
            /\ UNCHANGED <<err, search>>
       ELSE \E i \in {initialize_VF2pp(G1, G2, G1_labels, G2_labels)} :
                /\ pc' = IF i.err = "none" THEN "loop" ELSE "raised"
                /\ err' = i.err
                /\ visited' = visited_new
                /\ state_params' = i.state_params
                /\ node_order' = i.node_order
                /\ stack' = i.stack
                /\ matching_node' = matching_node_first
    /\ UNCHANGED <<inputs, results, pre, tried, calls, other>>

\* Variant: the candidate enters `visited` before it is tested, so a
\* rejected candidate stays in it.
RejectMarksVisited ==
    /\ pc = "loop"
    /\ stack[Len(stack)].cands # <<>>
    /\ ~CandidateAccepted(Head(stack[Len(stack)].cands))
    /\ stack' = Advanced(stack)
    /\ visited' = visited \cup {Head(stack[Len(stack)].cands)}
    /\ tried' = Append(tried, <<stack[Len(stack)].node, Head(stack[Len(stack)].cands)>>)
    /\ UNCHANGED <<inputs, pc, err, state_params, node_order,
                   matching_node, results, pre, calls, other>>

\* The next candidate of the top frame is visited or infeasible.
Reject ==
    /\ pc = "loop"
    /\ stack[Len(stack)].cands # <<>>
    /\ ~CandidateAccepted(Head(stack[Len(stack)].cands))
    /\ stack' = Advanced(stack)
    /\ tried' = Append(tried, <<stack[Len(stack)].node, Head(stack[Len(stack)].cands)>>)
    /\ UNCHANGED <<inputs, pc, err, visited, state_params, node_order,
                   matching_node, results, pre, calls, other>>

\* The next candidate of the top frame is accepted and committed; a complete
\* mapping is handed to the caller, otherwise the next frame is pushed.
Accept ==
    /\ pc = "loop"
    /\ stack[Len(stack)].cands # <<>>
    /\ CandidateAccepted(Head(stack[Len(stack)].cands))
    /\ \E candidate \in {Head(stack[Len(stack)].cands)} :
       \E sp \in {update_state(stack[Len(stack)].node, candidate,
                               graph_params, state_params)} :
           /\ visited' = visited \cup {candidate}
           /\ state_params' = sp
           /\ IF MappingComplete(sp)
              THEN /\ pc' = "yielded"
                   /\ results' = Append(results, sp.mapping)
                   /\ stack' = Advanced(stack)
                   /\ UNCHANGED <<err, matching_node>>
              ELSE \E p \in {PushNext(Advanced(stack), sp)} :
                   /\ pc' = IF p.err = "none" THEN "loop" ELSE "raised"
                   /\ err' = p.err
                   /\ stack' = p.stack
                   /\ matching_node' = p.matching_node
                   /\ UNCHANGED results
    /\ tried' = Append(tried, <<stack[Len(stack)].node, Head(stack[Len(stack)].cands)>>)
    /\ UNCHANGED <<inputs, node_order, pre, calls, other>>

\* prepare_next(stack, node_order, visited, state_params): the top frame
\* is popped and its node put back at the front of the node order, the
\* pair of the new top frame's node leaves the two mappings, and visited is
\* cleared.  err is "IndexError" when no frame is left (`stack[-1]`).
prepare_next(stk, order, vis, sp) ==
    LET entering_node == stk[Len(stk)].node
        rest == SubSeq(stk, 1, Len(stk) - 1)
    IN  IF rest = <<>>
        THEN [err |-> "IndexError", stack |-> rest,
              node_order |-> <<entering_node>> \o order,
              visited |-> vis, state_params |-> sp]
        ELSE LET popped_node1 == rest[Len(rest)].node
                 popped_node2 == sp.mapping[popped_node1]
             IN  [err |-> "none", stack |-> rest,
                  node_order |-> <<entering_node>> \o order,
                  visited |-> {},
                  state_params |->
                     [sp EXCEPT !.mapping = MapPop(sp.mapping, popped_node1),
                                !.reverse_mapping =
                                    MapPop(sp.reverse_mapping, popped_node2)]]

\* Variant: after the yield the body calls prepare_next and continues with
\* the loop (the two statements that follow the yield as comments).
ResumePrepared ==
    /\ pc = "yielded"
    /\ \E p \in {prepare_next(stack, node_order, visited, state_params)} :
           /\ pc' = IF p.err = "none" THEN "loop" ELSE "raised"
           /\ err' = p.err
           /\ stack' = p.stack
           /\ node_order' = p.node_order
           /\ visited' = p.visited
           /\ state_params' = p.state_params
    /\ UNCHANGED <<inputs, matching_node, results, pre, tried, calls, other>>

\* Variant: after the yield the body starts the search again from the
\* first frame.
ResumeRestart ==
    /\ pc = "yielded"
    /\ \E i \in {initialize_VF2pp(G1, G2, G1_labels, G2_labels)} :
           /\ pc' = "loop"
           /\ visited' = visited_new
           /\ state_params' = i.state_params
           /\ node_order' = i.node_order
           /\ stack' = i.stack
           /\ matching_node' = matching_node_first
    /\ UNCHANGED <<inputs, err, results, pre, tried, calls, other>>

\* A further request of the caller after a result: the body continues
\* after the yield.
Resume ==
    /\ pc = "yielded"
    /\ \E p \in {PushNext(stack, state_params)} :
           /\ pc' = IF p.err = "none" THEN "loop" ELSE "raised"
           /\ err' = p.err
           /\ stack' = p.stack
           /\ matching_node' = p.matching_node
    /\ UNCHANGED <<inputs, visited, state_params, node_order, results, pre,
                   tried, calls, other>>

\* Variant: backtracking pops the frame and restores nothing.
RestoreSkipped(stk) == [visited |-> visited, state_params |-> state_params]

\* `if stack: restore_state(stack, visited, graph_params, state_params)`
RestoreIfFrames(stk) ==
    IF stk # <<>>
    THEN restore_state(stk, visited, graph_params, state_params)
    ELSE [visited |-> visited, state_params |-> state_params]

\* The top frame's iterator is exhausted (StopIteration): pop it, and undo
\* the pair of the new top frame; with the stack empty the body returns.
Backtrack ==
    /\ pc = "loop"
    /\ stack[Len(stack)].cands = <<>>
    /\ \E popped \in {SubSeq(stack, 1, Len(stack) - 1)} :
       \E r \in {RestoreIfFrames(popped)} :
           /\ stack' = popped
           /\ matching_node' = matching_node - 1
           /\ visited' = r.visited
           /\ state_params' = r.state_params
           /\ pc' = IF popped # <<>> THEN "loop" ELSE "done"
    /\ UNCHANGED <<inputs, err, node_order, results, pre, tried, calls, other>>

\* A direct call of precheck (the pre-check-only entry point).
PrecheckCall ==
    /\ pc = "init"
    /\ Len(pre) < MaxCalls
    /\ pre' = Append(pre, precheck(G1, G2, G1_labels, G2_labels))
    /\ \E after \in {precheck_args(G1, G2, G1_labels, G2_labels)} :
           /\ G1' = after[1]
           /\ G2' = after[2]
           /\ G1_labels' = after[3]
           /\ G2_labels' = after[4]
    /\ UNCHANGED <<pc, err, search, results, tried, calls, other>>

-----------------------------------------------------------------------------
(* Inputs: every pair of graphs on at most MaxNodes nodes (with at most    *)
(* MaxLoops self-loops each) and every pair of total label maps; every     *)
(* loop-free labelled graph on MaxNodes + 1 nodes against each of its      *)
(* renumberings; and the inputs of the test suite.                         *)

PossibleEdges(N) == {{u, v} : u, v \in 1..N}

Loops(E) == {e \in E : Cardinality(e) = 1}

GraphsOn(N) ==
    {[nodes |-> 1..N, edges |-> E] :
        E \in {F \in SUBSET PossibleEdges(N) : Cardinality(Loops(F)) <= MaxLoops}}

LabelMaps(N) == [1..N -> 1..NumLabels]

SimpleGraphsOn(N) == {g \in GraphsOn(N) : Loops(g.edges) = {}}

Renumberings(N) == {p \in [1..N -> 1..N] : \A u, v \in 1..N : u # v => p[u] # p[v]}

\* The graph and the label map with node u renamed p[u].
Renumbered(g, p) == [nodes |-> g.nodes, edges |-> {{p[u] : u \in e} : e \in g.edges}]

RenumberedLabels(l, p) ==
    [m \in DOMAIN l |-> l[CHOOSE u \in DOMAIN l : p[u] = m]]

\* Inputs of the test suite and of the documented scenarios, with the node
\* names "A", "B", "C", "D", "Z" of the second graph written 1..5.
Graph(N, E) == [nodes |-> 1..N, edges |-> E]

Scenarios ==
    { \* test_custom_graph1, labels assigned along the expected mapping
      <<Graph(5, {{1,2},{1,3},{1,4},{2,3},{3,4},{5,1},{5,2},{5,4}}),
        Graph(5, {{1,2},{1,3},{1,4},{2,3},{3,4},{5,1},{5,2},{5,4}}),
        <<1, 2, 1, 2, 1>>, <<1, 2, 1, 2, 1>> >>,
      \* a 4-node path against a 4-node star centred at 1
      <<Graph(4, {{1,2},{2,3},{3,4}}), Graph(4, {{1,2},{1,3},{1,4}}),
        <<1, 1, 1, 1>>, <<1, 1, 1, 1>> >> }

\* No invocation has started its body yet.
Unstarted ==
    /\ pc = "init"
    /\ err = "none"
    /\ visited = {}
    /\ state_params = InitialState(G1, G2)
    /\ node_order = <<>>
    /\ stack = <<>>
    /\ matching_node = 1
    /\ results = <<>>
    /\ pre = <<>>
    /\ tried = <<>>
    /\ calls = <<>>
    /\ other = <<>>

\* Every pair of graphs on at most MaxNodes nodes, with total label maps.
AllPairs ==
    \E n1, n2 \in 0..MaxNodes :
        /\ G1 \in GraphsOn(n1)
        /\ G2 \in GraphsOn(n2)
        /\ G1_labels \in LabelMaps(n1)
        /\ G2_labels \in LabelMaps(n2)

\* Label maps that may lack the entry of some nodes.
PartialLabelMaps(N) == UNION {[S -> 1..NumLabels] : S \in SUBSET (1..N)}

\* Every pair of graphs on at most MaxUnlabelled nodes, each with a label map
\* on some of its nodes.
MalformedPairs ==
    \E n1, n2 \in 0..MaxUnlabelled :
        /\ G1 \in GraphsOn(n1)
        /\ G2 \in GraphsOn(n2)
        /\ G1_labels \in PartialLabelMaps(n1)
        /\ G2_labels \in PartialLabelMaps(n2)

Init ==
    /\ \/ AllPairs
       \/ \E p \in Renumberings(MaxNodes + 1) :
             /\ G1 \in SimpleGraphsOn(MaxNodes + 1)
             /\ G1_labels \in LabelMaps(MaxNodes + 1)
             /\ G2 = Renumbered(G1, p)
             /\ G2_labels = RenumberedLabels(G1_labels, p)
       \/ \E s \in Scenarios :
             /\ G1 = s[1]
             /\ G2 = s[2]
             /\ G1_labels = s[3]
             /\ G2_labels = s[4]
    /\ Unstarted

Next == Start \/ Reject \/ Accept \/ Resume \/ Backtrack

Spec == Init /\ [][Next]_vars

NextPre == PrecheckCall

SpecPre == Init /\ [][NextPre]_vars

\* The query on inputs whose label maps may be partial.
InitMalformed == MalformedPairs /\ Unstarted

SpecMalformed == InitMalformed /\ [][Next]_vars

-----------------------------------------------------------------------------
(* The caller.                                                             *)

\* `flag, mapping = isomorphic_VF2pp(G1, G2, l1, l2)`: the generator is
\* unpacked into exactly two values.  exc is "pending" while the unpacking
\* has not ended, "none" when it succeeded, else the exception it raised.
Unpacked ==
    IF pc = "raised" THEN [exc |-> err, flag |-> "unbound", mapping |-> "unbound"]
    ELSE IF pc = "done"
         THEN IF Len(results) = 2
              THEN [exc |-> "none", flag |-> results[1], mapping |-> results[2]]
              ELSE [exc |-> "ValueError", flag |-> "unbound", mapping |-> "unbound"]
    ELSE IF pc = "yielded" /\ Len(results) > 2
         THEN [exc |-> "ValueError", flag |-> "unbound", mapping |-> "unbound"]
    ELSE [exc |-> "pending", flag |-> "unbound", mapping |-> "unbound"]

\* The current request of the caller has been answered.
Answered == pc \in {"yielded", "done", "raised"}

\* The result sequence is over: the body returned or raised.
Ended == pc \in {"done", "raised"}

\* What the caller keeps of an invocation that has ended.
Finished ==
    [G1 |-> G1, G2 |-> G2, G1_labels |-> G1_labels, G2_labels |-> G2_labels,
     pc |-> pc, err |-> err, results |-> results,
     node_order |-> node_order, tried |-> tried]

\* The caller, whose generator has ended, calls isomorphic_VF2pp again: with
\* the same arguments, or with the graphs and their label maps exchanged.
\* The new generator's body has not started; the names of the old body's
\* locals are bound again at lines 33-37 before they are read.
CallAgain ==
    /\ Ended
    /\ Len(calls) + 1 < MaxInvocations
    /\ calls' = Append(calls, Finished)
    /\ \E swapped \in BOOLEAN :
           /\ G1' = IF swapped THEN G2 ELSE G1
           /\ G2' = IF swapped THEN G1 ELSE G2
           /\ G1_labels' = IF swapped THEN G2_labels ELSE G1_labels
           /\ G2_labels' = IF swapped THEN G1_labels ELSE G2_labels
    /\ pc' = "init"
    /\ err' = "none"
    /\ results' = <<>>
    /\ tried' = <<>>
    /\ UNCHANGED <<search, pre, other>>

\* The query invoked again by the same caller.
NextAgain == Next \/ CallAgain

SpecAgain == Init /\ [][NextAgain]_vars

-----------------------------------------------------------------------------
(* Reference definitions, by brute force over all functions.               *)

IsIsomorphism(f) ==
    /\ DOMAIN f = G1.nodes
    /\ Range(f) = G2.nodes
    /\ \A u, v \in G1.nodes : u # v => f[u] # f[v]
    /\ \A u, v \in G1.nodes : ({u, v} \in G1.edges) <=> ({f[u], f[v]} \in G2.edges)
    /\ \A u \in G1.nodes : G1_labels[u] = G2_labels[f[u]]

AllIsomorphisms == {f \in [G1.nodes -> G2.nodes] : IsIsomorphism(f)}

DegreeCount(G, d) == Cardinality({n \in G.nodes : Degree(G, n) = d})

LabelCount(labels, l) == Cardinality({n \in DOMAIN labels : labels[n] = l})

SameDegreeMultiset ==
    \A d \in {Degree(G1, n) : n \in G1.nodes} \cup {Degree(G2, n) : n \in G2.nodes} :
        DegreeCount(G1, d) = DegreeCount(G2, d)

SameLabelCounts ==
    \A l \in Range(G1_labels) \cup Range(G2_labels) :
        LabelCount(G1_labels, l) = LabelCount(G2_labels, l)

-----------------------------------------------------------------------------
(* Claims.                                                                 *)

\* C1 (soundness): every mapping handed to the caller is a bijection from
\* all nodes of G1 onto the nodes of G2 that preserves edges in both
\* directions and preserves labels.
C1_Soundness ==
    \A i \in DOMAIN results :
        LET f == results[i]
        IN  /\ DOMAIN f = G1.nodes
            /\ Range(f) = G2.nodes
            /\ Cardinality(Range(f)) = Cardinality(DOMAIN f)
            /\ \A u, v \in G1.nodes :
                  ({u, v} \in G1.edges) <=> ({f[u], f[v]} \in G2.edges)
            /\ \A u \in G1.nodes : G1_labels[u] = G2_labels[f[u]]

\* A mapping that is not the identity was produced for 3-node graphs with
\* edges and both labels in use.
C1_Witness ==
    /\ pc = "yielded"
    /\ Order(G1) = 3
    /\ G1.edges # {}
    /\ Range(G1_labels) = 1..NumLabels
    /\ \E u \in G1.nodes : results[1][u] # u

\* C2 (existence): for non-empty graphs, once the first request has been
\* answered, a mapping has been produced iff an isomorphism exists.
C2_Existence ==
    (Answered /\ Order(G1) > 0 /\ Order(G2) > 0)
        => ((results # <<>>) <=> (AllIsomorphisms # {}))

\* Two uniformly labelled triangles yielded a mapping of all three nodes.
C2_Witness ==
    /\ pc = "yielded"
    /\ G1 = Graph(3, {{1,2},{2,3},{1,3}})
    /\ G2 = G1
    /\ G1_labels = <<1, 1, 1>>
    /\ G2_labels = <<1, 1, 1>>
    /\ DOMAIN results[1] = {1, 2, 3}

\* C3 (completeness of enumeration): when the result sequence is over, the
\* set of mappings produced is the set of all isomorphisms.
C3_EnumerationComplete ==
    (Ended /\ Order(G1) > 0) => (SeqToSet(results) = AllIsomorphisms)

\* C4 (resumption): a request made after a result never ends in an error
\* and pushes no frame past the last node of the order.
C4_ResumeNoError ==
    [][pc = "yielded" => (pc' # "raised" /\ Len(stack') <= Len(node_order'))]_vars

\* C5 (return convention): the call unpacks into (True, an isomorphism) when
\* the graphs are isomorphic and into (False, None) otherwise.
C5_ReturnsPair ==
    (Unpacked.exc # "pending")
        => /\ Unpacked.exc = "none"
           /\ IF AllIsomorphisms # {}
              THEN Unpacked.flag = TRUE /\ Unpacked.mapping \in AllIsomorphisms
              ELSE Unpacked.flag = FALSE /\ Unpacked.mapping = "None"

C7_BothEmptyIsomorphic ==
    (Order(G1) = 0 /\ Order(G2) = 0 /\ Unpacked.exc # "pending")
        => /\ Unpacked.exc = "none"
           /\ Unpacked.flag = TRUE
           /\ Unpacked.mapping = EmptyMap

\* C8: precheck returns True exactly when the node counts are equal, the
\* multisets of degrees are equal and every label has the same number of
\* nodes in both label maps.
C8_PrecheckExact ==
    \A i \in DOMAIN pre :
        pre[i] <=> (Order(G1) = Order(G2) /\ SameDegreeMultiset /\ SameLabelCounts)

\* The 4-node path against the 4-node star was rejected by precheck.
C8_Witness ==
    /\ pre = <<FALSE>>
    /\ G1 = Graph(4, {{1,2},{2,3},{3,4}})
    /\ G2 = Graph(4, {{1,2},{1,3},{1,4}})

\* C9 (no false negative): once the query has run its pre-check, if
\* precheck rejects the inputs then no isomorphism exists and the search
\* produces no mapping.
C9_NoFalseNegative ==
    (pc # "init" /\ ~precheck(G1, G2, G1_labels, G2_labels))
        => (AllIsomorphisms = {} /\ results = <<>>)

\* The query ended on 3-node graphs of equal label counts that precheck
\* rejects for their degrees.
C9_Witness ==
    /\ pc = "done"
    /\ Order(G1) = 3
    /\ Order(G2) = 3
    /\ SameLabelCounts
    /\ ~precheck(G1, G2, G1_labels, G2_labels)

C11_ShortCircuit ==
    (pc # "init" /\ (Order(G1) # Order(G2) \/ ~SameDegreeMultiset \/ ~SameLabelCounts))
        => /\ pc = "done"
           /\ err = "none"
           /\ results = <<>>
           /\ node_order = <<>>
           /\ stack = <<>>
           /\ tried = <<>>
           /\ visited = {}
           /\ state_params.mapping = EmptyMap
           /\ state_params.reverse_mapping = EmptyMap

\* The query ended on two 3-node graphs with the same degrees whose label
\* counts differ.
C11_Witness ==
    /\ pc = "done"
    /\ Order(G1) = 3
    /\ Order(G2) = 3
    /\ G1.edges # {}
    /\ SameDegreeMultiset
    /\ ~SameLabelCounts

\* The label maps are total and differ on exactly one node.
OneLabelDiffers ==
    /\ DOMAIN G1_labels = G1.nodes
    /\ DOMAIN G2_labels = G1.nodes
    /\ Cardinality({n \in G1.nodes : G1_labels[n] # G2_labels[n]}) = 1

\* C12: for graphs of identical structure whose label maps differ on exactly
\* one node, the counts per label differ, and the started query has ended
\* with no mapping at its pre-check: no node order was computed and no
\* candidate tested.
C12_OneLabelDiffers ==
    (G1 = G2 /\ OneLabelDiffers)
        => /\ nodes_per_label(G1_labels) # nodes_per_label(G2_labels)
           /\ pc # "init" =>
                 (pc = "done" /\ results = <<>> /\ node_order = <<>> /\ tried = <<>>)

\* The query ended on two copies of a 3-node graph with edges whose labels
\* differ on one node only.
C12_Witness ==
    /\ pc = "done"
    /\ G1 = G2
    /\ Order(G1) = 3
    /\ G1.edges # {}
    /\ OneLabelDiffers

\* g has exactly the edges of h and a self-loop on one node.
OneLoopMore(g, h) ==
    /\ g.nodes = h.nodes
    /\ \E x \in g.nodes : {x} \notin h.edges /\ g.edges = h.edges \cup {{x}}

\* C13: when one graph is the other with a self-loop added on one node (same
\* labels), the sorted degree sequences differ, and the started query has
\* ended with no mapping at its pre-check: no node order was computed and
\* no candidate tested.
C13_LoopOnOneSide ==
    ((OneLoopMore(G1, G2) \/ OneLoopMore(G2, G1)) /\ G1_labels = G2_labels)
        => /\ SortedDegrees(G1) # SortedDegrees(G2)
           /\ pc # "init" =>
                 (pc = "done" /\ results = <<>> /\ node_order = <<>> /\ tried = <<>>)

\* The query ended on a 3-node graph with edges against the same graph with
\* a self-loop added.
C13_Witness ==
    /\ pc = "done"
    /\ Order(G1) = 3
    /\ G2.edges # {}
    /\ OneLoopMore(G1, G2)
    /\ G1_labels = G2_labels

\* C14: when both graphs carry a self-loop and an isomorphism exists, the
\* answered query has produced a mapping, and it sends every self-looped
\* node of G1 to a self-looped node of G2.
C14_LoopOnBothSides ==
    (Answered /\ Loops(G1.edges) # {} /\ AllIsomorphisms # {})
        => /\ results # <<>>
           /\ \A x \in G1.nodes :
                 ({x} \in G1.edges) <=> ({results[1][x]} \in G2.edges)

\* A mapping was produced that sends the self-looped node of G1 to a
\* differently numbered self-looped node of G2, in graphs with other edges.
C14_Witness ==
    /\ pc = "yielded"
    /\ Order(G1) = 3
    /\ \E x \in G1.nodes :
          /\ {x} \in G1.edges
          /\ results[1][x] # x
          /\ {results[1][x]} \in G2.edges
    /\ Cardinality(G1.edges) >= 3

\* The invocation before the current one.
Previous == calls[Len(calls)]

\* The current invocation has the arguments of the previous one exchanged.
SwappedCall ==
    /\ calls # <<>>
    /\ G1 = Previous.G2
    /\ G2 = Previous.G1
    /\ G1_labels = Previous.G2_labels
    /\ G2_labels = Previous.G1_labels

\* The current invocation has the arguments of the previous one.
SameCall ==
    /\ calls # <<>>
    /\ G1 = Previous.G1
    /\ G2 = Previous.G2
    /\ G1_labels = Previous.G1_labels
    /\ G2_labels = Previous.G2_labels

\* C15 (symmetry of the verdict): once the query on the exchanged arguments
\* has answered its first request, it has produced a mapping iff the query
\* on the original arguments produced one.
C15_VerdictSymmetric ==
    (SwappedCall /\ Answered) => ((results # <<>>) <=> (Previous.results # <<>>))

\* Both queries produced a mapping, on two differently numbered 3-node
\* graphs with edges.
C15_Witness ==
    /\ SwappedCall
    /\ pc = "yielded"
    /\ Previous.results # <<>>
    /\ Order(G1) = 3
    /\ G1.edges # {}
    /\ G1 # G2

\* The inverse of an injective mapping.
Inverse(f) == [y \in Range(f) |-> CHOOSE x \in DOMAIN f : f[x] = y]

\* C16 (symmetry of the result): the mapping produced by the query on the
\* exchanged arguments is the inverse of the mapping produced by the query
\* on the original arguments.
C16_ResultInverse ==
    (SwappedCall /\ Answered /\ Previous.results # <<>>)
        => /\ results # <<>>
           /\ results[1] = Inverse(Previous.results[1])

\* f is a label-preserving isomorphism from g1 onto g2.
IsomorphismOf(f, g1, g2, l1, l2) ==
    /\ DOMAIN f = g1.nodes
    /\ Range(f) = g2.nodes
    /\ \A u, v \in g1.nodes : u # v => f[u] # f[v]
    /\ \A u, v \in g1.nodes : ({u, v} \in g1.edges) <=> ({f[u], f[v]} \in g2.edges)
    /\ \A u \in g1.nodes : l1[u] = l2[f[u]]

\* C16 as amended: when the query on the original arguments produced a
\* mapping, the query on the exchanged arguments produces one whose inverse
\* is an isomorphism from the original G1 onto the original G2; it is the
\* original query's mapping when there is only one isomorphism.
C16_InverseIsIsomorphism ==
    (SwappedCall /\ Answered /\ Previous.results # <<>>)
        => /\ results # <<>>
           /\ IsomorphismOf(Inverse(results[1]), Previous.G1, Previous.G2,
                            Previous.G1_labels, Previous.G2_labels)
           /\ Cardinality(AllIsomorphisms) = 1
                 => results[1] = Inverse(Previous.results[1])

\* The query on the exchanged arguments produced a mapping that is not the
\* inverse of the one the original query produced.
C16_Witness ==
    /\ SwappedCall
    /\ pc = "yielded"
    /\ Previous.results # <<>>
    /\ results[1] # Inverse(Previous.results[1])

\* Some node of G1 or of G2 has no entry in its label map.
Unlabelled ==
    \/ \E n \in G1.nodes : n \notin DOMAIN G1_labels
    \/ \E n \in G2.nodes : n \notin DOMAIN G2_labels

\* C17 (malformed input): a started query on inputs with an unlabelled node
\* has failed with an error before the search: no candidate was tested and
\* no pair committed.
C17_MalformedFailsFast ==
    (Unlabelled /\ pc # "init")
        => /\ pc = "raised"
           /\ tried = <<>>
           /\ state_params.mapping = EmptyMap

\* The inputs pass the pre-check and no isomorphism exists.
SearchMustFail ==
    /\ Order(G1) > 0
    /\ Order(G1) = Order(G2)
    /\ SameDegreeMultiset
    /\ SameLabelCounts
    /\ AllIsomorphisms = {}

\* n + n^2 + ... + n^n: the number of candidate tests of a search over n
\* nodes that tries every candidate in every frame.
RECURSIVE Power(_, _)
Power(n, k) == IF k = 0 THEN 1 ELSE n * Power(n, k - 1)

RECURSIVE TestBound(_, _)
TestBound(n, k) == IF k = 0 THEN 0 ELSE Power(n, k) + TestBound(n, k - 1)

\* C18 (exhaustion): on inputs that pass the pre-check and admit no
\* isomorphism, the query never raises and never produces a mapping; its
\* loop runs only while there are frames, tests a bounded number of
\* candidates, and ends with the frame stack empty.
C18_ExhaustionNormal ==
    SearchMustFail
        => /\ err = "none"
           /\ pc \in {"init", "loop", "done"}
           /\ results = <<>>
           /\ pc = "loop" => stack # <<>>
           /\ pc = "done" => stack = <<>>
           /\ Len(tried) <= TestBound(Order(G1), Order(G1))

\* The search ended with no mapping after committing a pair, testing
\* further candidates and popping every frame.
C18_Witness ==
    /\ SearchMustFail
    /\ pc = "done"
    /\ stack = <<>>
    /\ Len(tried) >= 3
    /\ results = <<>>

\* C19 (termination): when the query can take no further step, it has
\* reached the end of its result sequence by exhaustion: the body has
\* returned and the frame stack is empty.
C19_Terminates == Ended => (pc = "done" /\ stack = <<>>)

\* s is an initial part of t.
IsPrefix(s, t) == Len(s) <= Len(t) /\ s = SubSeq(t, 1, Len(s))

-----------------------------------------------------------------------------
(* The state of the search: mapping and frontier sets                      *)

\* C22 (mapping invariant): in every state of the search the forward and
\* the reverse mapping are inverse to each other: reverse[forward[x]] = x
\* for every mapped node x of G1, forward[reverse[y]] = y for every mapped
\* node y of G2, and both have the same number of entries.
C22_MutualInverses ==
    LET forward == state_params.mapping
        reverse == state_params.reverse_mapping
    IN  /\ \A x \in DOMAIN forward :
              forward[x] \in DOMAIN reverse /\ reverse[forward[x]] = x
        /\ \A y \in DOMAIN reverse :
              reverse[y] \in DOMAIN forward /\ forward[reverse[y]] = y
        /\ Cardinality(DOMAIN forward) = Cardinality(DOMAIN reverse)

\* The position of node n in the node order.
Position(n) == CHOOSE i \in DOMAIN node_order : node_order[i] = n

\* A frame was popped and an earlier frame went on: a candidate was tested
\* for a node after one was tested for a later node of the order.
WentBack ==
    \E i, j \in DOMAIN tried :
        i < j /\ Position(tried[j][1]) < Position(tried[i][1])

\* The search went back over a committed pair and holds two pairs.
C22_Witness ==
    /\ pc = "loop"
    /\ WentBack
    /\ Cardinality(DOMAIN state_params.mapping) = 2

-----------------------------------------------------------------------------
(* The state manager on its own: any sequence of commits and rollbacks     *)

\* update_state(n, m, ...) for any unmapped node n of G1 and any unmapped
\* node m of G2; the frame of n goes on the stack.
Commit ==
    /\ pc = "init"
    /\ \E n \in G1.nodes \ DOMAIN state_params.mapping :
       \E m \in G2.nodes \ DOMAIN state_params.reverse_mapping :
           /\ state_params' = update_state(n, m, graph_params, state_params)
           /\ visited' = visited \cup {m}
           /\ stack' = Append(stack, [node |-> n, cands |-> <<>>])
    /\ UNCHANGED <<inputs, pc, err, node_order, matching_node, results, pre,
                   tried, calls, other>>

\* restore_state(...) for the pair committed last; its frame leaves the
\* stack, and `tried` remembers the pair (only the latest one).
Rollback ==
    /\ pc = "init"
    /\ stack # <<>>
    /\ \E r \in {restore_state(stack, visited, graph_params, state_params)} :
           /\ state_params' = r.state_params
           /\ visited' = r.visited
    /\ stack' = SubSeq(stack, 1, Len(stack) - 1)
    /\ tried' = <<<<stack[Len(stack)].node,
                    state_params.mapping[stack[Len(stack)].node]>>>>
    /\ UNCHANGED <<inputs, pc, err, node_order, matching_node, results, pre,
                   calls, other>>

\* Every pair of graphs with the same number of nodes, at most MaxNodes;
\* the state manager does not read the labels.
InitState ==
    /\ \E n \in 0..MaxNodes :
           /\ G1 \in GraphsOn(n)
           /\ G2 \in GraphsOn(n)
           /\ G1_labels = [u \in 1..n |-> 1]
           /\ G2_labels = [u \in 1..n |-> 1]
    /\ Unstarted

NextState == Commit \/ Rollback

SpecState == InitState /\ [][NextState]_vars

\* A pair has been rolled back.
RolledBack == tried # <<>>

\* Each node of `nodes` is in exactly one of the three sets.
Partition(nodes, mapped, Tin, Tout) ==
    /\ mapped \cup Tin \cup Tout = nodes
    /\ mapped \cap Tin = {}
    /\ mapped \cap Tout = {}
    /\ Tin \cap Tout = {}

\* C23 (frontier partition): from the initial state on and after any
\* commits and rollbacks, every node of G1 is in exactly one of mapped, T1
\* and T1_out, and every node of G2 in exactly one of mapped, T2 and
\* T2_out, self-loops or not.
C23_FrontierPartition ==
    /\ Partition(G1.nodes, DOMAIN state_params.mapping,
                 state_params.T1, state_params.T1_out)
    /\ Partition(G2.nodes, DOMAIN state_params.reverse_mapping,
                 state_params.T2, state_params.T2_out)

\* After a rollback a node with a self-loop is mapped, and G1 has a node in
\* each of its frontier sets.
C23_Witness ==
    /\ RolledBack
    /\ \E n \in DOMAIN state_params.mapping : {n} \in G1.edges
    /\ state_params.T1 # {}
    /\ state_params.T1_out # {}

\* The unmapped nodes of G adjacent to a mapped node.
FrontierIn(G, mapped) ==
    {v \in G.nodes \ mapped : Nbrs(G, v) \cap mapped # {}}

\* The unmapped nodes of G adjacent to no mapped node.
FrontierOut(G, mapped) ==
    {v \in G.nodes \ mapped : Nbrs(G, v) \cap mapped = {}}

\* C24 (frontier meaning): after any commits and rollbacks the maintained
\* sets equal the sets computed from the current mapping alone: T_in is the
\* set of unmapped nodes adjacent to a mapped node, T_out the set of
\* unmapped nodes adjacent to none.
C24_FrontierMeaning ==
    /\ state_params.T1 = FrontierIn(G1, DOMAIN state_params.mapping)
    /\ state_params.T1_out = FrontierOut(G1, DOMAIN state_params.mapping)
    /\ state_params.T2 = FrontierIn(G2, DOMAIN state_params.reverse_mapping)
    /\ state_params.T2_out = FrontierOut(G2, DOMAIN state_params.reverse_mapping)

\* A pair was rolled back, its node of G2 is unmapped, and a neighbour of
\* that node is in T2 because another of its neighbours is mapped.
C24_Witness ==
    /\ RolledBack
    /\ tried[1][2] \notin DOMAIN state_params.reverse_mapping
    /\ \E v \in state_params.T2 : v # tried[1][2] /\ {v, tried[1][2]} \in G2.edges

\* The state reached from the initial one by committing, in order, the
\* pairs of the first k frames of the stack, with their images under f.
RECURSIVE Replay(_, _)
Replay(k, f) ==
    IF k = 0
    THEN InitialState(G1, G2)
    ELSE update_state(stack[k].node, f[stack[k].node], graph_params,
                      Replay(k - 1, f))

\* C25 (rollback reversibility): commits followed by their rollbacks in
\* reverse order restore the mapping, the reverse mapping and the four
\* frontier sets exactly: whatever was committed and rolled back meanwhile,
\* the state is the one that the commits of the pairs still held, made from
\* the initial state with no rollback, produce (the state held before the
\* first commit that was rolled back).
C25_RollbackRestores ==
    state_params = Replay(Len(stack), state_params.mapping)

\* A pair was rolled back while another is still held whose node is
\* adjacent to a neighbour of the rolled-back node, in both graphs.
C25_Witness ==
    /\ RolledBack
    /\ state_params.mapping # EmptyMap
    /\ tried[1][1] \notin DOMAIN state_params.mapping
    /\ \E v \in state_params.T1 : v # tried[1][1] /\ {v, tried[1][1]} \in G1.edges
    /\ \E v \in state_params.T2 : v # tried[1][2] /\ {v, tried[1][2]} \in G2.edges

-----------------------------------------------------------------------------
(* The driver: mapping, stack and results in step                          *)

\* f preserves labels and, among the nodes it maps, edges and non-edges.
PartialIsomorphism(f) ==
    /\ \A u \in DOMAIN f : G1_labels[u] = G2_labels[f[u]]
    /\ \A u, v \in DOMAIN f : ({u, v} \in G1.edges) <=> ({f[u], f[v]} \in G2.edges)

\* The candidate at the head of the top frame is tested and not accepted.
Rejecting ==
    /\ pc = "loop"
    /\ stack[Len(stack)].cands # <<>>
    /\ ~CandidateAccepted(Head(stack[Len(stack)].cands))

\* C26 (partial isomorphism): in every state of the search, not only when a
\* result is produced, the mapping preserves labels and, for all mapped
\* nodes u and v of G1, {u, v} is an edge of G1 iff {f[u], f[v]} is an edge
\* of G2; and a step that rejects a candidate commits nothing.
C26_PartialIsomorphism ==
    /\ [](PartialIsomorphism(state_params.mapping))
    /\ [][Rejecting => state_params' = state_params]_vars

\* Two pairs are held, one of them for a node of G1 for which another
\* candidate was tested and not kept, in a search that also went back.
C26_Witness ==
    /\ pc = "loop"
    /\ WentBack
    /\ Cardinality(DOMAIN state_params.mapping) = 2
    /\ \E i \in DOMAIN tried :
          /\ tried[i][1] \in DOMAIN state_params.mapping
          /\ state_params.mapping[tried[i][1]] # tried[i][2]

\* The candidate at the head of the top frame is tested and accepted.
Accepting ==
    /\ pc = "loop"
    /\ stack[Len(stack)].cands # <<>>
    /\ CandidateAccepted(Head(stack[Len(stack)].cands))

\* The top frame has no candidate left.
Backtracking == pc = "loop" /\ stack[Len(stack)].cands = <<>>

\* The number of pairs held.
Pairs(sp) == Cardinality(DOMAIN sp.mapping)

\* At the head of an iteration the stack is as deep as matching_node says,
\* frame i holds node_order[i], and the mapped nodes of G1 are the nodes of
\* the frames below the top frame.
InStep ==
    pc = "loop"
        => /\ Len(stack) = matching_node
           /\ \A i \in DOMAIN stack : stack[i].node = node_order[i]
           /\ DOMAIN state_params.mapping
                 = {stack[i].node : i \in 1..(Len(stack) - 1)}

\* C27 as stated: the stack and the mapping are in step at the head of
\* every iteration, the mapping grows by exactly one pair per accepted
\* candidate and shrinks by exactly one pair per backtrack.
C27_OnePairPerBacktrack ==
    /\ []InStep
    /\ [][/\ Accepting => Pairs(state_params') = Pairs(state_params) + 1
          /\ Backtracking => Pairs(state_params') = Pairs(state_params) - 1]_vars

\* C27 (amended): the stack and the mapping are in step at the head of
\* every iteration; the mapping grows by exactly one pair per accepted
\* candidate, shrinks by exactly one pair per backtrack that leaves a frame
\* on the stack, and is empty and stays empty when the last frame is popped.
C27_InStep ==
    /\ []InStep
    /\ [][/\ Accepting => Pairs(state_params') = Pairs(state_params) + 1
          /\ Rejecting => Pairs(state_params') = Pairs(state_params)
          /\ (Backtracking /\ Len(stack) > 1)
                => Pairs(state_params') = Pairs(state_params) - 1
          /\ (Backtracking /\ Len(stack) = 1)
                => Pairs(state_params) = 0 /\ Pairs(state_params') = 0]_vars

\* The search went back and is two frames deep again, below the end of the
\* node order.
C27_Witness ==
    /\ pc = "loop"
    /\ WentBack
    /\ Len(stack) = 2
    /\ Len(node_order) > 2
    /\ Pairs(state_params) = 1

\* C28 (backtrack step): when the top frame has no candidate left, the
\* step pops it.  With a frame left, exactly the pair committed for the new
\* top frame's node leaves the two mappings and the search goes on with the
\* candidates that frame had left; with no frame left the search is
\* exhausted and nothing is rolled back.  A frame without any candidate
\* from the start is popped in the same way and raises nothing.
C28_BacktrackStep ==
    [][Backtracking =>
          /\ stack' = SubSeq(stack, 1, Len(stack) - 1)
          /\ err' = err
          /\ IF Len(stack) > 1
             THEN LET n == stack[Len(stack) - 1].node
                  IN  /\ n \in DOMAIN state_params.mapping
                      /\ state_params'.mapping = MapPop(state_params.mapping, n)
                      /\ state_params'.reverse_mapping
                            = MapPop(state_params.reverse_mapping,
                                     state_params.mapping[n])
                      /\ pc' = "loop"
                      /\ stack'[Len(stack')].cands = stack[Len(stack) - 1].cands
             ELSE /\ pc' = "done"
                  /\ state_params' = state_params]_vars

\* The candidate tested last was accepted for the top frame's node, the
\* frame pushed after it had no candidate from the start and was popped,
\* and the pair has been rolled back.
C28_Witness ==
    /\ pc = "loop"
    /\ tried # <<>>
    /\ tried[Len(tried)][1] = stack[Len(stack)].node
    /\ stack[Len(stack)].node \notin DOMAIN state_params.mapping
    /\ CandidateAccepted(tried[Len(tried)][2])
    /\ stack[Len(stack)].cands # <<>>

\* C29 (results): a result is produced exactly when a commit makes the
\* number of pairs equal to the number of nodes of G1: every mapping handed
\* to the caller has that many entries, every commit that completes the
\* mapping hands it over, and the search is suspended only there.
C29_ResultOnCompletion ==
    /\ [](/\ \A i \in DOMAIN results : Cardinality(DOMAIN results[i]) = Order(G1)
          /\ pc = "yielded" => (results # <<>> /\ Pairs(state_params) = Order(G1)))
    /\ [][/\ (Accepting /\ Pairs(state_params') = Order(G1))
                => /\ pc' = "yielded"
                   /\ results' = Append(results, state_params'.mapping)
          /\ (pc' = "yielded" \/ results' # results)
                => /\ Accepting
                   /\ Pairs(state_params) = Order(G1) - 1
                   /\ Pairs(state_params') = Order(G1)]_vars

\* A mapping of three nodes was handed over by a search that had gone back.
C29_Witness ==
    /\ pc = "yielded"
    /\ WentBack
    /\ Order(G1) >= 3
    /\ Len(results) = 1

\* `yield state_params.mapping`: the caller is handed the dict of the search
\* itself, not a copy.  What the caller reads in the i-th mapping it was
\* handed is what that dict holds now.
HeldByCaller(i) == state_params.mapping

-----------------------------------------------------------------------------
(* Two invocations whose steps are interleaved                             *)

\* The arguments and the locals of the invocation that is running.
Running ==
    [G1 |-> G1, G2 |-> G2, G1_labels |-> G1_labels, G2_labels |-> G2_labels,
     pc |-> pc, err |-> err, visited |-> visited, state_params |-> state_params,
     node_order |-> node_order, stack |-> stack,
     matching_node |-> matching_node, results |-> results, tried |-> tried]

\* An invocation whose body has not started: its locals are bound at lines
\* 33-37 before they are read.
NewInvocation(g1, g2, l1, l2) ==
    [G1 |-> g1, G2 |-> g2, G1_labels |-> l1, G2_labels |-> l2,
     pc |-> "init", err |-> "none", visited |-> {},
     state_params |-> InitialState(g1, g2), node_order |-> <<>>,
     stack |-> <<>>, matching_node |-> 1, results |-> <<>>, tried |-> <<>>]

\* Variant: `visited` is one set of the module, used by every invocation.
ResumedSharedVisited(o) == [o EXCEPT !.visited = visited]

\* Variant: the mapping and the frontier sets are objects of the module,
\* used by every invocation.
ResumedSharedState(o) == [o EXCEPT !.state_params = state_params]

\* What a suspended invocation finds when it runs again: `visited`
\* (line 33), the stack, the node order and the state (lines 34-36, made by
\* initialize_VF2pp at lines 109-130) and matching_node (line 37) are
\* objects of the invocation, so it finds what it left.
Resumed(o) == o

\* The caller, whose first invocation has ended, makes two more: one with
\* the same arguments, which starts running, and one with the same or the
\* exchanged arguments, which waits.
CallTwo ==
    /\ Ended
    /\ calls = <<>>
    /\ other = <<>>
    /\ calls' = <<Finished>>
    /\ \E swapped \in BOOLEAN :
           other' = << IF swapped
                       THEN NewInvocation(G2, G1, G2_labels, G1_labels)
                       ELSE NewInvocation(G1, G2, G1_labels, G2_labels) >>
    /\ pc' = "init"
    /\ err' = "none"
    /\ results' = <<>>
    /\ tried' = <<>>
    /\ UNCHANGED <<inputs, search, pre>>

\* The caller turns to its other invocation: the running one is suspended
\* where it is and the other one runs.
Switch ==
    /\ other # <<>>
    /\ \E o \in {Resumed(other[1])} :
           /\ G1' = o.G1
           /\ G2' = o.G2
           /\ G1_labels' = o.G1_labels
           /\ G2_labels' = o.G2_labels
           /\ pc' = o.pc
           /\ err' = o.err
           /\ visited' = o.visited
           /\ state_params' = o.state_params
           /\ node_order' = o.node_order
           /\ stack' = o.stack
           /\ matching_node' = o.matching_node
           /\ results' = o.results
           /\ tried' = o.tried
    /\ other' = <<Running>>
    /\ UNCHANGED <<pre, calls>>

\* Every pair of graphs on fewer than MaxNodes nodes, and every graph on
\* MaxNodes nodes against each of its renumberings.
InitTwo ==
    /\ \/ \E n1, n2 \in 0..(MaxNodes - 1) :
             /\ G1 \in GraphsOn(n1)
             /\ G2 \in GraphsOn(n2)
             /\ G1_labels \in LabelMaps(n1)
             /\ G2_labels \in LabelMaps(n2)
       \/ \E p \in Renumberings(MaxNodes) :
             /\ G1 \in GraphsOn(MaxNodes)
             /\ G1_labels \in LabelMaps(MaxNodes)
             /\ G2 = Renumbered(G1, p)
             /\ G2_labels = RenumberedLabels(G1_labels, p)
    /\ Unstarted

NextTwo == Next \/ CallTwo \/ Switch

SpecTwo == InitTwo /\ [][NextTwo]_vars

\* Invocation f has the arguments of the invocation that ran alone.
SameArguments(f) ==
    /\ f.G1 = Previous.G1
    /\ f.G2 = Previous.G2
    /\ f.G1_labels = Previous.G1_labels
    /\ f.G2_labels = Previous.G2_labels

\* Invocation f has done, so far, what the invocation that ran alone did,
\* and has ended as it did if it has ended.
AsAlone(f) ==
    /\ IsPrefix(f.tried, Previous.tried)
    /\ IsPrefix(f.results, Previous.results)
    /\ f.pc \in {"done", "raised"}
          => /\ f.tried = Previous.tried
             /\ f.results = Previous.results
             /\ f.node_order = Previous.node_order
             /\ f.pc = Previous.pc
             /\ f.err = Previous.err

\* C21 (independence of invocations): however the steps of two invocations
\* are interleaved, on the same graphs or on different ones, and whether or
\* not one of them is left unfinished, each invocation tests the candidates
\* and produces the mappings that an invocation with its arguments tests
\* and produces when it runs alone.
C21_Independent ==
    (calls # <<>> /\ other # <<>>)
        => /\ SameArguments(Running) => AsAlone(Running)
           /\ SameArguments(other[1]) => AsAlone(other[1])

\* One invocation has ended with a mapping after it had rejected a
\* candidate, while the other, with the same arguments, is suspended in the
\* middle of its search.
C21_Witness ==
    /\ calls # <<>>
    /\ other # <<>>
    /\ pc = "raised"
    /\ results # <<>>
    /\ Len(tried) > Order(G1)
    /\ SameArguments(other[1])
    /\ other[1].pc = "loop"
    /\ other[1].tried # <<>>
    /\ other[1].state_params.mapping # EmptyMap

-----------------------------------------------------------------------------
(* The end of the search, the visited set and the candidates               *)

\* The body ran into its loop and left it with the stack empty.
Exhausted == pc = "done" /\ node_order # <<>>

\* C31 (state at exhaustion): when the search ends with the stack empty,
\* the two mappings are empty, T1 and T2 are empty, and T1_out and T2_out
\* hold every node of their graph, as at the start.
C31_InitialAtExhaustion ==
    Exhausted => state_params = InitialState(G1, G2)

\* The search is exhausted after it had committed pairs and gone back over
\* them, on graphs of three nodes or more.
C31_Witness ==
    /\ Exhausted
    /\ WentBack
    /\ Order(G1) >= 3

PoppedBetween(i, j) ==
    \E k \in (i + 1)..(j - 1) : Position(tried[k][1]) < Position(tried[i][1])

\* C33 (no re-trial within a frame): from the push of a frame to its pop no
\* node of G2 is tested, and so none is committed, twice for the frame's
\* node, also after frames pushed from it have failed and been rolled back.
C33_NoRetrial ==
    \A i, j \in DOMAIN tried :
        (i < j /\ tried[i] = tried[j]) => PoppedBetween(i, j)

\* A frame tested a candidate, frames pushed from it failed, and the same
\* frame went on to test another candidate.
C33_Witness ==
    \E i, j \in DOMAIN tried :
        /\ i < j
        /\ tried[i][1] = tried[j][1]
        /\ tried[i][2] # tried[j][2]
        /\ ~PoppedBetween(i, j)
        /\ \E k \in (i + 1)..(j - 1) :
              Position(tried[k][1]) > Position(tried[i][1])

MappedNbrs(n) == Nbrs(G1, n) \cap DOMAIN state_params.mapping

\* m is unmapped, carries the label of n and, if n has a mapped neighbour,
\* is a neighbour in G2 of the image of one of them.
SoundCandidate(n, m) ==
    /\ m \in G2.nodes \ DOMAIN state_params.reverse_mapping
    /\ G2_labels[m] = G1_labels[n]
    /\ MappedNbrs(n) # {}
          => \E u \in MappedNbrs(n) : m \in Nbrs(G2, state_params.mapping[u])

\* C35 (sound candidates): every candidate the top frame holds for its node
\* n is an unmapped node of G2 with the label of n, and when n has a mapped
\* neighbour every candidate is a neighbour in G2 of the image of a mapped
\* neighbour of n.  (The top frame is tested in the state it was pushed in.)
C35_CandidatesSound ==
    pc = "loop"
        => \A k \in DOMAIN stack[Len(stack)].cands :
              SoundCandidate(stack[Len(stack)].node, stack[Len(stack)].cands[k])

\* A frame pushed for a node with a mapped neighbour holds a candidate,
\* while G2 has another unmapped node of the same label that is none.
C35_Witness ==
    /\ pc = "loop"
    /\ MappedNbrs(stack[Len(stack)].node) # {}
    /\ stack[Len(stack)].cands # <<>>
    /\ \E m \in G2.nodes \ DOMAIN state_params.reverse_mapping :
          /\ G2_labels[m] = G1_labels[stack[Len(stack)].node]
          /\ ~SoundCandidate(stack[Len(stack)].node, m)

\* The candidates generated for the top frame: those it still holds and
\* those it has tested since it was pushed.
Generated ==
    SeqToSet(stack[Len(stack)].cands)
        \cup {tried[i][2] : i \in {k \in DOMAIN tried :
                                      /\ tried[k][1] = stack[Len(stack)].node
                                      /\ ~PoppedBetween(k, Len(tried) + 1)}}

\* Isomorphism f agrees with the pairs held.
Extends(f) ==
    \A u \in DOMAIN state_params.mapping : f[u] = state_params.mapping[u]

\* C36 (no solution lost): for the partial mapping held and the node n of
\* the top frame, every node m of G2 such that the mapping with n -> m added
\* can be completed to a label-preserving isomorphism is among the
\* candidates generated for n.
C36_CandidatesComplete ==
    pc = "loop"
        => \A f \in AllIsomorphisms :
              Extends(f) => f[stack[Len(stack)].node] \in Generated

\* The mapping held, of one pair or more, can be completed in two ways that
\* differ on the top frame's node, after a candidate of that frame was
\* tested.
C36_Witness ==
    /\ pc = "loop"
    /\ state_params.mapping # EmptyMap
    /\ SeqToSet(stack[Len(stack)].cands) # Generated
    /\ \E f, g \in AllIsomorphisms :
          /\ Extends(f)
          /\ Extends(g)
          /\ f[stack[Len(stack)].node] # g[stack[Len(stack)].node]

\* C37 (tests have no effect on the state): a step that tests a candidate
\* and rejects it leaves the two mappings, the four frontier sets and
\* `visited` as they are and stays in the same frame, with the next
\* candidate; the mappings and the frontier sets change only in a step that
\* commits a pair or rolls one back.
C37_TestsLeaveState ==
    [][/\ Rejecting
            => /\ state_params' = state_params
               /\ visited' = visited
               /\ pc' = "loop"
               /\ matching_node' = matching_node
               /\ Len(stack') = Len(stack)
               /\ stack'[Len(stack)].node = stack[Len(stack)].node
               /\ stack'[Len(stack)].cands = Tail(stack[Len(stack)].cands)
               /\ SubSeq(stack', 1, Len(stack) - 1) = SubSeq(stack, 1, Len(stack) - 1)
       /\ state_params' # state_params
            => \/ Accepting
               \/ Backtracking /\ Len(stack) > 1]_vars

\* A candidate was rejected in a frame above the first one, with a pair
\* held and a candidate left.
C37_Witness ==
    /\ pc = "loop"
    /\ state_params.mapping # EmptyMap
    /\ tried # <<>>
    /\ tried[Len(tried)][1] = stack[Len(stack)].node
    /\ ~feasibility(tried[Len(tried)][1], tried[Len(tried)][2],
                    graph_params, state_params)
    /\ stack[Len(stack)].cands # <<>>

\* C38 (the cuts are necessary conditions): for the pairs held and the node
\* n of the top frame, every pair (n, m) that can be completed (a
\* label-preserving isomorphism agrees with the pairs held and maps n to m)
\* passes the checks on label, degree, mapped neighbours and the counts in
\* T_in and T_out, and the pair the search rejects next is none of them.
C38_CutsNecessary ==
    pc = "loop"
        => \A f \in AllIsomorphisms :
              Extends(f)
                 => /\ feasibility(stack[Len(stack)].node, f[stack[Len(stack)].node],
                                   graph_params, state_params)
                    /\ Rejecting
                          => f[stack[Len(stack)].node] # Head(stack[Len(stack)].cands)

\* The pair tested last can be completed and was committed, with pairs held
\* before it and unmapped nodes of G1 in T1 and in T1_out.
C38_Witness ==
    /\ pc = "loop"
    /\ tried # <<>>
    /\ Cardinality(DOMAIN state_params.mapping) >= 2
    /\ tried[Len(tried)][1] \in DOMAIN state_params.mapping
    /\ state_params.mapping[tried[Len(tried)][1]] = tried[Len(tried)][2]
    /\ \E f \in AllIsomorphisms : Extends(f)
    /\ state_params.T1 # {}
    /\ state_params.T1_out # {}

\* C39 (node order): while the search runs, the node order holds every node
\* of G1 exactly once and the frame at depth k is for its k-th node; once
\* computed, the node order is never changed.
C39_NodeOrderFixed ==
    /\ [](pc \in {"loop", "yielded"}
             => /\ Len(node_order) = Order(G1)
                /\ SeqToSet(node_order) = G1.nodes
                /\ \A k \in DOMAIN stack : stack[k].node = node_order[k])
    /\ [][pc # "init" => node_order' = node_order]_vars

\* The search went back and is three frames deep.
C39_Witness ==
    /\ pc = "loop"
    /\ WentBack
    /\ Len(stack) = 3

====
